---- MODULE Spec2Model ----
(***************************************************************************)
(* caffe2/operators/sequence_ops.cc: the AddPadding, RemovePadding and     *)
(* GatherPadding CPU operators.                                            *)
(*                                                                         *)
(* A tensor is a record [dims, data]: dims is its shape and data its       *)
(* row-major flat storage.  Pointers into a tensor (in_ptr, out_ptr) are   *)
(* element offsets from the start of its storage, as in the source.        *)
(* One run of an operator is RunOnDevice (the zero-width fast path, or the *)
(* set-up part of DoRunWithType), then one step per iteration of the       *)
(* segment loop, then the part of DoRunWithType after the loop.            *)
(***************************************************************************)
EXTENDS Integers, Sequences, FiniteSets, TLC

\* ---------------------------------------------------------------- bounds
\* Largest outer dimension N of an input tensor handed to a first operator.
MaxRows == 2
\* Largest number of entries of a lengths input.
MaxSegs == 2
\* Largest padding_width / end_padding_width argument.
MaxWidth == 1

\* Row values of input tensors, of start paddings and of end paddings.
Vals == {0, 1}
StartPadVals == {0, 2}
EndPadVals == {0, 3}
\* Shapes after the outer dimension: T<N> (block_size 1) and T<N, 2>.
InnerShapes == {<<>>, <<2>>}

\* An element whose value is indeterminate: storage that mutable_data()
\* returned and nothing wrote, or the result of a read outside a tensor.
Indet == -1

Ops == {"AddPadding", "RemovePadding", "GatherPadding"}

\* How a run fails: a CHECK of the operator, or a call it makes that throws.
Failures == {"LengthOverrun", "ShapeMismatch", "NegativeExtent", "NoSuchInput"}

VARIABLES
  op,                  \* the operator that is running
  startPaddingWidth_,  \* its members
  endPaddingWidth_,
  InputSize,           \* InputSize(), OutputSize() of its OperatorDef
  OutputSize,
  data_in,             \* Input(0)
  lengths,             \* Input(1), the i64 data; <<>> when InputSize() = 1
  padding_start,       \* Input(2), its data; <<>> when InputSize() < 3
  padding_end,         \* Input(3), its data; <<>> when InputSize() < 4
  output0,             \* Output(0)
  output1,             \* Output(1)
  pc,                  \* "start", "loop", "done", or how the run failed
  i,                   \* the loop index of DoRunWithType (0-based)
  total_length,
  in_ptr,              \* offset of in_ptr from in.data<T>()
  out_ptr,             \* offset of out_ptr from out->mutable_data<T>()
  writes,              \* per element of Output(0): how often it was written
  ub,                  \* the run has had undefined behaviour
  fed                  \* the AddPadding run whose outputs are the inputs, or NoRun

vars == <<op, startPaddingWidth_, endPaddingWidth_, InputSize, OutputSize,
          data_in, lengths, padding_start, padding_end, output0, output1,
          pc, i, total_length, in_ptr, out_ptr, writes, ub, fed>>

\* ------------------------------------------------------------- helpers
RECURSIVE Product(_)
Product(s) == IF s = <<>> THEN 1 ELSE Head(s) * Product(Tail(s))

RECURSIVE SumSeq(_)
SumSeq(s) == IF s = <<>> THEN 0 ELSE Head(s) + SumSeq(Tail(s))

\* A tensor nobody has resized or written.
Unset == [dims |-> <<0>>, data |-> <<>>]
NoRun == [op |-> "none"]

\* Resize(dims) followed by mutable_data<T>(): storage of the new size with
\* indeterminate contents.
Resized(dims) == [dims |-> dims, data |-> [j \in 1..Product(dims) |-> Indet]]

Zeros(n) == [j \in 1..n |-> 0]

\* `times` copies of `block`, one after the other.
Repeat(block, times) ==
  [j \in 1..(Len(block) * times) |-> block[((j - 1) % Len(block)) + 1]]

\* The n elements of buf from offset `at`; an element outside buf is
\* indeterminate.
Slice(buf, at, n) ==
  [j \in 1..n |-> IF at + j >= 1 /\ at + j <= Len(buf) THEN buf[at + j] ELSE Indet]

\* buf with vals stored from offset `at`; a store outside buf is dropped.
Store(buf, at, vals) ==
  [j \in 1..Len(buf) |->
     IF j > at /\ j <= at + Len(vals) THEN vals[j - at] ELSE buf[j]]

\* The write counts after a store of n elements at offset `at`.
Count(w, at, n) ==
  [j \in 1..Len(w) |-> IF j > at /\ j <= at + n THEN w[j] + 1 ELSE w[j]]

\* Whether the n elements from offset `at` lie inside buf.
Inside(buf, at, n) == n = 0 \/ (at >= 0 /\ at + n <= Len(buf))

\* T += T on one element.
Plus(a, b) == IF a = Indet \/ b = Indet THEN Indet ELSE a + b

\* ------------------------------------------------- SegmentLayout (shared)
outer_size == data_in.dims[1]
block_size == Product(Tail(data_in.dims))
\* lengths_ptr / lengths_size: a single full-span entry if no lengths given.
lengths_ptr == IF InputSize > 1 THEN lengths ELSE <<outer_size>>
lengths_size == Len(lengths_ptr)
pad_width == startPaddingWidth_ + endPaddingWidth_
ZeroWidth == startPaddingWidth_ = 0 /\ endPaddingWidth_ = 0

\* The constructors: end_padding_width defaults to -1, which means "the
\* same as padding_width".
EndWidth(padding_width, end_padding_width) ==
  IF end_padding_width < 0 THEN padding_width ELSE end_padding_width

\* (a variant that takes the shape and not the contents)
CopyFrom_ShapeOnly(t) == [dims |-> t.dims, data |-> [j \in 1..Len(t.data) |-> Indet]]
\* Output(k)->CopyFrom(Input(k)).
CopyFrom(t) == t

LengthsTensor(L) == [dims |-> <<Len(L)>>, data |-> L]

\* ------------------------------------------------------------ AddPadding
\* padding_start_ptr / padding_end_ptr; <<>> stands for nullptr.
padding_start_ptr == IF InputSize >= 3 THEN padding_start ELSE <<>>
\* (a variant that does not fall back to the start padding)
padding_end_ptr_NoFallback == IF InputSize = 4 THEN padding_end ELSE <<>>
padding_end_ptr == IF InputSize = 4 THEN padding_end ELSE padding_start_ptr

\* The rows a padding pointer fills: memset 0 if it is null, else copies.
Fill(ptr, bs, width) == IF ptr = <<>> THEN Zeros(bs * width) ELSE Repeat(ptr, width)

\* (a variant that adds the padding once per tensor: T<N + 2*pad_width>)
AddOutDims_OncePerTensor(dims, s, e, n) == [dims EXCEPT ![1] = @ + (s + e)]
AddOutDims(dims, s, e, n) == [dims EXCEPT ![1] = @ + (s + e) * n]

AddLengthsOut(L, pw) == [j \in 1..Len(L) |-> L[j] + pw]

\* (a variant that lets an overrun of one row pass)
Overrun_OffByOne(total, outer) == total > outer + 1
\* Whether CHECK_LE(total_length, outer_size) fails.
Overrun(total, outer) == total > outer

\* (a variant that writes the payload where the padding before it went)
AddSegment_NoAdvance(out, wr, ip, optr, len) ==
  LET bs == block_size
      before == Fill(padding_start_ptr, bs, startPaddingWidth_)
      o1 == Store(out, optr, before)
      num_elems == bs * len
      o2 == Store(o1, optr, Slice(data_in.data, ip, num_elems))
      p2 == optr + num_elems
      after == Fill(padding_end_ptr, bs, endPaddingWidth_)
      o3 == Store(o2, p2, after)
      p3 == p2 + bs * endPaddingWidth_
  IN  [data |-> o3,
       writes |-> Count(Count(wr, optr, bs * startPaddingWidth_), optr, p3 - optr),
       in_ptr |-> ip + num_elems,
       out_ptr |-> p3,
       ub |-> FALSE]

\* One iteration of the loop (lines 256-280) for a segment of `len` rows:
\* padding before, payload, padding after.  ip and optr are in_ptr and
\* out_ptr on entry.
AddSegment(out, wr, ip, optr, len) ==
  LET bs == block_size
      before == Fill(padding_start_ptr, bs, startPaddingWidth_)
      o1 == Store(out, optr, before)
      p1 == optr + bs * startPaddingWidth_
      num_elems == bs * len
      o2 == Store(o1, p1, Slice(data_in.data, ip, num_elems))
      p2 == p1 + num_elems
      after == Fill(padding_end_ptr, bs, endPaddingWidth_)
      o3 == Store(o2, p2, after)
      p3 == p2 + bs * endPaddingWidth_
  IN  [data |-> o3,
       writes |-> Count(wr, optr, p3 - optr),
       in_ptr |-> ip + num_elems,
       out_ptr |-> p3,
       ub |-> ~Inside(data_in.data, ip, num_elems) \/ ~Inside(out, optr, p3 - optr)]

\* RunOnDevice: the zero-width fast path (lines 195-201), else the part of
\* DoRunWithType before the loop (lines 208-250).
AddPaddingRunOnDevice ==
  /\ op = "AddPadding" /\ pc = "start"
  /\ IF ZeroWidth
     THEN /\ output0' = CopyFrom(data_in)
          /\ writes' = [j \in 1..Len(data_in.data) |-> 1]
          /\ IF OutputSize = 2
             THEN IF InputSize > 1
                  THEN output1' = CopyFrom(LengthsTensor(lengths)) /\ pc' = "done"
                  ELSE \* Input(1) does not exist
                       output1' = output1 /\ pc' = "NoSuchInput"
             ELSE output1' = output1 /\ pc' = "done"
     ELSE IF \/ (InputSize >= 3 /\ block_size # Len(padding_start))
             \/ (InputSize = 4 /\ block_size # Len(padding_end))
          THEN \* CHECK_EQ(block_size, padding.size())
               pc' = "ShapeMismatch" /\ UNCHANGED <<output0, output1, writes>>
          ELSE /\ output0' = Resized(AddOutDims(data_in.dims, startPaddingWidth_,
                                                endPaddingWidth_, lengths_size))
               /\ writes' = Zeros(Len(output0'.data))
               /\ output1' = output1
               /\ pc' = "loop"
  /\ i' = 0 /\ total_length' = 0 /\ in_ptr' = 0 /\ out_ptr' = 0
  /\ UNCHANGED <<op, startPaddingWidth_, endPaddingWidth_, InputSize, OutputSize,
                 data_in, lengths, padding_start, padding_end, ub, fed>>

\* One iteration of the loop of lines 251-281.
AddPaddingSegment ==
  /\ op = "AddPadding" /\ pc = "loop" /\ i < lengths_size
  /\ LET length == lengths_ptr[i + 1]
         r == AddSegment(output0.data, writes, in_ptr, out_ptr, length)
     IN  /\ total_length' = total_length + length
         /\ IF Overrun(total_length', outer_size)
            THEN pc' = "LengthOverrun" /\ UNCHANGED <<output0, writes, in_ptr, out_ptr, i, ub>>
            ELSE /\ output0' = [output0 EXCEPT !.data = r.data]
                 /\ writes' = r.writes
                 /\ in_ptr' = r.in_ptr
                 /\ out_ptr' = r.out_ptr
                 /\ ub' = (ub \/ r.ub)
                 /\ i' = i + 1
                 /\ pc' = "loop"
  /\ UNCHANGED <<op, startPaddingWidth_, endPaddingWidth_, InputSize, OutputSize,
                 data_in, lengths, padding_start, padding_end, output1, fed>>

\* After the loop (lines 282-293): the lengths output, if there is one.
AddPaddingFinish ==
  /\ op = "AddPadding" /\ pc = "loop" /\ i >= lengths_size
  /\ output1' = IF OutputSize = 1 THEN output1
                ELSE LengthsTensor(AddLengthsOut(lengths_ptr, pad_width))
  /\ pc' = "done"
  /\ UNCHANGED <<op, startPaddingWidth_, endPaddingWidth_, InputSize, OutputSize,
                 data_in, lengths, padding_start, padding_end, output0,
                 i, total_length, in_ptr, out_ptr, writes, ub, fed>>

\* --------------------------------------------------------- RemovePadding
RemoveOutDims(dims, pw, n) == [dims EXCEPT ![1] = @ - pw * n]

RemoveLengthsOut(L, pw) == [j \in 1..Len(L) |-> L[j] - pw]

\* std::copy(first, last, out_ptr) of lines 155-158, as offsets into in.
\* (a variant that copies the end padding too)
CopyLast_KeepsEndPadding(ip, bs, len) == ip + bs * len
CopyFirst(ip, bs) == ip + bs * startPaddingWidth_
CopyLast(ip, bs, len) == ip + bs * (len - endPaddingWidth_)

\* One iteration of the loop (lines 155-160) for a segment of `len` rows.
\* std::copy with last before first is undefined; nothing is stored then.
RemoveSegment(out, wr, ip, optr, len) ==
  LET bs == block_size
      first == CopyFirst(ip, bs)
      last == CopyLast(ip, bs, len)
      n == last - first
      m == IF n >= 0 THEN n ELSE 0
  IN  [data |-> Store(out, optr, Slice(data_in.data, first, m)),
       writes |-> Count(wr, optr, m),
       in_ptr |-> ip + bs * len,
       out_ptr |-> optr + bs * (len - pad_width),
       ub |-> \/ n < 0
              \/ ~Inside(data_in.data, first, m)
              \/ ~Inside(out, optr, m)]

\* RunOnDevice: the zero-width fast path (lines 112-118), else the part of
\* DoRunWithType before the loop (lines 125-149).  A tensor of negative
\* extent has no storage: mutable_data() fails.
RemovePaddingRunOnDevice ==
  /\ op = "RemovePadding" /\ pc = "start"
  /\ IF ZeroWidth
     THEN /\ output0' = CopyFrom(data_in)
          /\ writes' = [j \in 1..Len(data_in.data) |-> 1]
          /\ IF OutputSize = 2
             THEN IF InputSize > 1
                  THEN output1' = CopyFrom(LengthsTensor(lengths)) /\ pc' = "done"
                  ELSE \* Input(1) does not exist
                       output1' = output1 /\ pc' = "NoSuchInput"
             ELSE output1' = output1 /\ pc' = "done"
     ELSE LET out_dims == RemoveOutDims(data_in.dims, pad_width, lengths_size)
          IN  IF out_dims[1] < 0
              THEN pc' = "NegativeExtent" /\ UNCHANGED <<output0, output1, writes>>
              ELSE /\ output0' = Resized(out_dims)
                   /\ writes' = Zeros(Len(output0'.data))
                   /\ output1' = output1
                   /\ pc' = "loop"
  /\ i' = 0 /\ total_length' = 0 /\ in_ptr' = 0 /\ out_ptr' = 0
  /\ UNCHANGED <<op, startPaddingWidth_, endPaddingWidth_, InputSize, OutputSize,
                 data_in, lengths, padding_start, padding_end, ub, fed>>

\* One iteration of the loop of lines 150-161.
RemovePaddingSegment ==
  /\ op = "RemovePadding" /\ pc = "loop" /\ i < lengths_size
  /\ LET length == lengths_ptr[i + 1]
         r == RemoveSegment(output0.data, writes, in_ptr, out_ptr, length)
     IN  /\ total_length' = total_length + length
         /\ IF Overrun(total_length', outer_size)
            THEN pc' = "LengthOverrun" /\ UNCHANGED <<output0, writes, in_ptr, out_ptr, i, ub>>
            ELSE /\ output0' = [output0 EXCEPT !.data = r.data]
                 /\ writes' = r.writes
                 /\ in_ptr' = r.in_ptr
                 /\ out_ptr' = r.out_ptr
                 /\ ub' = (ub \/ r.ub)
                 /\ i' = i + 1
                 /\ pc' = "loop"
  /\ UNCHANGED <<op, startPaddingWidth_, endPaddingWidth_, InputSize, OutputSize,
                 data_in, lengths, padding_start, padding_end, output1, fed>>

\* After the loop (lines 162-172): the lengths output, if there is one.
RemovePaddingFinish ==
  /\ op = "RemovePadding" /\ pc = "loop" /\ i >= lengths_size
  /\ output1' = IF OutputSize = 1 THEN output1
                ELSE LengthsTensor(RemoveLengthsOut(lengths_ptr, pad_width))
  /\ pc' = "done"
  /\ UNCHANGED <<op, startPaddingWidth_, endPaddingWidth_, InputSize, OutputSize,
                 data_in, lengths, padding_start, padding_end, output0,
                 i, total_length, in_ptr, out_ptr, writes, ub, fed>>

\* --------------------------------------------------------- GatherPadding
\* (a variant that assigns the row instead of adding it)
Accumulate_Assigns(acc, buf, p, bs, width) ==
  IF width <= 0 THEN acc ELSE Slice(buf, p + bs * (width - 1), bs)
\* The loops of lines 74-79 and 82-87: `width` rows from offset p are added,
\* element by element, to acc.
RECURSIVE Accumulate(_, _, _, _, _)
Accumulate(acc, buf, p, bs, width) ==
  IF width <= 0 THEN acc
  ELSE Accumulate([k \in 1..bs |-> Plus(acc[k], Slice(buf, p, bs)[k])],
                  buf, p + bs, bs, width - 1)

\* (a variant that skips the end padding as if it were payload)
SkipPayload_OverEndPadding(p, bs, len) == p + bs * (len - startPaddingWidth_)
\* Where in_ptr stands after the start paddings (line 80 included).
SkipPayload(p, bs, len) == p + bs * (len - pad_width)

\* One iteration of the loop (lines 74-87) for a segment of `len` rows.
\* With one output padding_end_ptr is padding_start_ptr: one accumulator.
GatherSegment(acc0, acc1, ip, len) ==
  LET bs == block_size
      a0 == Accumulate(acc0, data_in.data, ip, bs, startPaddingWidth_)
      p1 == ip + bs * startPaddingWidth_
      p2 == SkipPayload(p1, bs, len)
      p3 == p2 + bs * endPaddingWidth_
  IN  [acc0 |-> IF OutputSize = 2 THEN a0
                ELSE Accumulate(a0, data_in.data, p2, bs, endPaddingWidth_),
       acc1 |-> IF OutputSize = 2
                THEN Accumulate(acc1, data_in.data, p2, bs, endPaddingWidth_)
                ELSE acc1,
       in_ptr |-> p3,
       ub |-> \/ ~Inside(data_in.data, ip, bs * startPaddingWidth_)
              \/ p2 < 0 \/ p2 > Len(data_in.data)
              \/ ~Inside(data_in.data, p2, bs * endPaddingWidth_)]

\* Resize(std::vector<TIndex>(0)) of lines 23 and 25: a tensor of no
\* dimensions, hence of one element, which nothing writes.
ResizedToNoDims == [dims |-> <<>>, data |-> <<Indet>>]

\* The accumulator of lines 51-55 and 60-62: Resize(padShape), memset 0.
Accumulator(padShape, bs) == [dims |-> padShape, data |-> Zeros(bs)]

\* RunOnDevice: the zero-width path (lines 22-28), else the part of
\* DoRunWithType before the loop (lines 35-66).
GatherPaddingRunOnDevice ==
  /\ op = "GatherPadding" /\ pc = "start"
  /\ IF ZeroWidth
     THEN /\ output0' = ResizedToNoDims
          /\ output1' = IF OutputSize = 2 THEN ResizedToNoDims ELSE output1
          /\ pc' = "done"
     ELSE /\ output0' = Accumulator(Tail(data_in.dims), block_size)
          /\ output1' = IF OutputSize = 2
                        THEN Accumulator(Tail(data_in.dims), block_size)
                        ELSE output1
          /\ pc' = "loop"
  /\ i' = 0 /\ total_length' = 0 /\ in_ptr' = 0 /\ out_ptr' = 0
  /\ UNCHANGED <<op, startPaddingWidth_, endPaddingWidth_, InputSize, OutputSize,
                 data_in, lengths, padding_start, padding_end, writes, ub, fed>>

\* One iteration of the loop of lines 67-88.
GatherPaddingSegment ==
  /\ op = "GatherPadding" /\ pc = "loop" /\ i < lengths_size
  /\ LET length == lengths_ptr[i + 1]
         r == GatherSegment(output0.data, output1.data, in_ptr, length)
     IN  /\ total_length' = total_length + length
         /\ IF Overrun(total_length', outer_size)
            THEN pc' = "LengthOverrun" /\ UNCHANGED <<output0, output1, in_ptr, i, ub>>
            ELSE /\ output0' = [output0 EXCEPT !.data = r.acc0]
                 /\ output1' = [output1 EXCEPT !.data = r.acc1]
                 /\ in_ptr' = r.in_ptr
                 /\ ub' = (ub \/ r.ub)
                 /\ i' = i + 1
                 /\ pc' = "loop"
  /\ UNCHANGED <<op, startPaddingWidth_, endPaddingWidth_, InputSize, OutputSize,
                 data_in, lengths, padding_start, padding_end, out_ptr, writes, fed>>

\* Line 89: return true.
GatherPaddingFinish ==
  /\ op = "GatherPadding" /\ pc = "loop" /\ i >= lengths_size
  /\ pc' = "done"
  /\ UNCHANGED <<op, startPaddingWidth_, endPaddingWidth_, InputSize, OutputSize,
                 data_in, lengths, padding_start, padding_end, output0, output1,
                 i, total_length, in_ptr, out_ptr, writes, ub, fed>>

\* ------------------------------------------------- operators in sequence
\* What a later operator keeps of the AddPadding run it reads from.
ThisRun == [op |-> op, InputSize |-> InputSize, OutputSize |-> OutputSize,
            data_in |-> data_in, lengths |-> lengths,
            padding_start |-> padding_start, padding_end |-> padding_end]

\* RemovePadding on the outputs of a finished AddPadding, with the inputs
\* and arguments GetAddPadingGradient gives it (lines 309-318): the lengths
\* output is an input if AddPadding made one.  It is asked for the outputs
\* AddPadding was asked for.
RemovePaddingOfAddPadding ==
  /\ op = "AddPadding" /\ pc = "done" /\ fed = NoRun
  /\ fed' = ThisRun
  /\ op' = "RemovePadding" /\ pc' = "start"
  /\ data_in' = output0
  /\ InputSize' = OutputSize
  /\ lengths' = IF OutputSize = 2 THEN output1.data ELSE <<>>
  /\ OutputSize' = OutputSize
  /\ padding_start' = <<>> /\ padding_end' = <<>>
  /\ output0' = Unset /\ output1' = Unset /\ writes' = <<>>
  /\ i' = 0 /\ total_length' = 0 /\ in_ptr' = 0 /\ out_ptr' = 0
  /\ UNCHANGED <<startPaddingWidth_, endPaddingWidth_, ub>>

\* GatherPadding on the outputs of a finished AddPadding, with its
\* arguments (GetAddPadingGradient, lines 320-328).
GatherPaddingOfAddPadding ==
  /\ op = "AddPadding" /\ pc = "done" /\ fed = NoRun
  /\ OutputSize = 2
  /\ fed' = ThisRun
  /\ op' = "GatherPadding" /\ pc' = "start"
  /\ data_in' = output0
  /\ InputSize' = 2
  /\ lengths' = output1.data
  /\ OutputSize' \in {1, 2}
  /\ padding_start' = <<>> /\ padding_end' = <<>>
  /\ output0' = Unset /\ output1' = Unset /\ writes' = <<>>
  /\ i' = 0 /\ total_length' = 0 /\ in_ptr' = 0 /\ out_ptr' = 0
  /\ UNCHANGED <<startPaddingWidth_, endPaddingWidth_, ub>>

\* ------------------------------------------------------ the state machine
\* The input tensors T<n, inner>, n <= maxRows: each row is the zero row or
\* the row v, 2v, ... of distinct non-zero elements, for a row value v.
Tensors(maxRows) ==
  UNION { { [dims |-> <<n>> \o inner,
             data |-> [j \in 1..(n * Product(inner)) |->
                         rv[((j - 1) \div Product(inner)) + 1]
                           * (((j - 1) % Product(inner)) + 1)]] :
              rv \in [1..n -> Vals] } :
          n \in 0..maxRows, inner \in InnerShapes }

\* The lengths inputs for a tensor of n rows: at most MaxSegs entries that
\* sum to less than n, to n, or to one row more than n.
LengthsInputs(n) ==
  UNION { { L \in [1..k -> 0..(n + 1)] : SumSeq(L) <= n + 1 } : k \in 0..MaxSegs }

\* The padding tensors T<inner> of bs elements.
Paddings(bs, vals) == { [k \in 1..bs |-> v * k] : v \in vals }

\* The tensor of six rows 1..6 with lengths 3, 3 of the operators' example.
ExampleTensor == [dims |-> <<6>>, data |-> <<1, 2, 3, 4, 5, 6>>]
ExampleLengths == <<3, 3>>

\* An operator constructed from its arguments, with its inputs in place.
Init ==
  \E o \in Ops, t \in Tensors(MaxRows) \cup {ExampleTensor}, isz \in 1..4, osz \in 1..2,
     padding_width \in 0..MaxWidth, end_padding_width \in -1..MaxWidth :
    /\ o = "RemovePadding" => isz <= 2
    /\ o = "GatherPadding" => isz = 2
    /\ op = o
    /\ startPaddingWidth_ = padding_width
    /\ endPaddingWidth_ = EndWidth(padding_width, end_padding_width)
    /\ InputSize = isz /\ OutputSize = osz
    /\ data_in = t
    /\ t = ExampleTensor => o = "AddPadding" /\ isz = 2 /\ osz = 2
    /\ IF isz >= 2
       THEN lengths \in IF t = ExampleTensor THEN {ExampleLengths}
                        ELSE LengthsInputs(t.dims[1])
       ELSE lengths = <<>>
    /\ IF isz >= 3 THEN padding_start \in Paddings(Product(Tail(t.dims)), StartPadVals)
                   ELSE padding_start = <<>>
    /\ IF isz = 4 THEN padding_end \in Paddings(Product(Tail(t.dims)), EndPadVals)
                  ELSE padding_end = <<>>
    /\ output0 = Unset /\ output1 = Unset
    /\ pc = "start"
    /\ i = 0 /\ total_length = 0 /\ in_ptr = 0 /\ out_ptr = 0
    /\ writes = <<>> /\ ub = FALSE /\ fed = NoRun

Next ==
  \/ AddPaddingRunOnDevice
  \/ AddPaddingSegment
  \/ AddPaddingFinish
  \/ RemovePaddingRunOnDevice
  \/ RemovePaddingSegment
  \/ RemovePaddingFinish
  \/ GatherPaddingRunOnDevice
  \/ GatherPaddingSegment
  \/ GatherPaddingFinish
  \/ RemovePaddingOfAddPadding
  \/ GatherPaddingOfAddPadding

Spec == Init /\ [][Next]_vars

\* ------------------------------------------------ what the claims refer to
\* The rows an operator with these inputs is asked to pad with.
StartTemplate == IF InputSize >= 3 THEN padding_start ELSE Zeros(block_size)
EndTemplate == IF InputSize = 4 THEN padding_end ELSE StartTemplate

\* The padded layout of buf, segment by segment: `before`, the segment's
\* rows, `after`.
RECURSIVE Layout(_, _, _, _, _)
Layout(buf, L, bs, before, after) ==
  IF L = <<>> THEN <<>>
  ELSE before \o SubSeq(buf, 1, bs * Head(L)) \o after
       \o Layout(SubSeq(buf, bs * Head(L) + 1, Len(buf)), Tail(L), bs, before, after)

\* The sum of the first n entries of L.
RECURSIVE PrefixSum(_, _)
PrefixSum(L, n) == IF n <= 0 THEN 0 ELSE L[n] + PrefixSum(L, n - 1)

NoPrefixOverruns(L, n) == \A k \in 1..Len(L) : PrefixSum(L, k) <= n

\* C2: AddPadding with widths not both zero and lengths that sum to N
\* returns, for each segment in order, startPaddingWidth_ copies of the start
\* padding (zeros if none is given), the segment's rows, and
\* endPaddingWidth_ copies of the end padding (the start padding if only
\* that is given, zeros if none); rows 1..6 with lengths 3, 3 and widths
\* (1, 0) give 0 1 2 3 0 4 5 6 and lengths 4, 4.
C2_AddPaddingLayout ==
  /\ (op = "AddPadding" /\ pc = "done" /\ ~ZeroWidth
        /\ SumSeq(lengths_ptr) = outer_size)
     => output0.data =
          Layout(data_in.data, lengths_ptr, block_size,
                 Repeat(StartTemplate, startPaddingWidth_),
                 Repeat(EndTemplate, endPaddingWidth_))
  /\ (op = "AddPadding" /\ pc = "done" /\ data_in = ExampleTensor
        /\ startPaddingWidth_ = 1 /\ endPaddingWidth_ = 0)
     => /\ output0.data = <<0, 1, 2, 3, 0, 4, 5, 6>>
        /\ output1.data = <<4, 4>>

\* Two segments, padded on both sides from a start padding that is not zero.
C2_Witness ==
  /\ op = "AddPadding" /\ pc = "done" /\ InputSize = 3
  /\ startPaddingWidth_ = 1 /\ endPaddingWidth_ = 1
  /\ data_in.dims = <<2, 2>> /\ lengths = <<1, 1>>
  /\ padding_start = <<2, 4>> /\ data_in.data = <<1, 2, 0, 0>>
  /\ output0.data = <<2, 4, 1, 2, 2, 4, 2, 4, 0, 0, 2, 4>>

FedLengths == IF fed.InputSize > 1 THEN fed.lengths ELSE <<fed.data_in.dims[1]>>
FedValid == SumSeq(FedLengths) = fed.data_in.dims[1]

StartPaddingRows(L, s) ==
  { PrefixSum(L, k - 1) + j : k \in 1..Len(L), j \in 0..(s - 1) }
EndPaddingRows(L, e) ==
  { PrefixSum(L, k) - 1 - j : k \in 1..Len(L), j \in 0..(e - 1) }

\* The sum of element k of the rows R of buf.
RECURSIVE ColumnSum(_, _, _, _)
ColumnSum(buf, bs, k, R) ==
  IF R = {} THEN 0
  ELSE LET r == CHOOSE x \in R : TRUE
       IN  buf[r * bs + k] + ColumnSum(buf, bs, k, R \ {r})

SumOfRows(buf, bs, R) == [k \in 1..bs |-> ColumnSum(buf, bs, k, R)]

\* C5: GatherPadding with widths not both zero, on lengths that sum to N and
\* are each at least s + e, returns with two outputs the sum of the first s
\* rows of every segment and the sum of the last e rows of every segment,
\* and with one output the sum of both; no other row contributes.
C5_GatherSums ==
  (op = "GatherPadding" /\ pc = "done" /\ ~ZeroWidth
     /\ SumSeq(lengths_ptr) = outer_size
     /\ \A k \in 1..lengths_size : lengths_ptr[k] >= pad_width)
  => LET S == StartPaddingRows(lengths_ptr, startPaddingWidth_)
         E == EndPaddingRows(lengths_ptr, endPaddingWidth_)
     IN  /\ ~ub
         /\ output0.dims = Tail(data_in.dims)
         /\ IF OutputSize = 2
            THEN /\ output0.data = SumOfRows(data_in.data, block_size, S)
                 /\ output1.dims = Tail(data_in.dims)
                 /\ output1.data = SumOfRows(data_in.data, block_size, E)
            ELSE output0.data = SumOfRows(data_in.data, block_size, S \cup E)

\* Two padded segments with rows that are not zero between the paddings.
C5_Witness ==
  /\ op = "GatherPadding" /\ pc = "done" /\ OutputSize = 2
  /\ startPaddingWidth_ = 1 /\ endPaddingWidth_ = 1
  /\ lengths = <<3, 3>>
  /\ data_in.data = <<2, 4, 1, 2, 3, 6, 2, 4, 1, 2, 3, 6>>
  /\ output0.data = <<4, 8>> /\ output1.data = <<6, 12>>

Scale(n, row) == [k \in 1..Len(row) |-> n * row[k]]
AddRows(a, b) == [k \in 1..Len(a) |-> a[k] + b[k]]

\* The AddPadding run padded rows that are all zero with given paddings.
FedZeroPayload ==
  /\ fed # NoRun /\ FedValid /\ fed.InputSize >= 3
  /\ \A j \in 1..Len(fed.data_in.data) : fed.data_in.data[j] = 0
FedEndPadding == IF fed.InputSize = 4 THEN fed.padding_end ELSE fed.padding_start
IsNonZero(row) == \E k \in 1..Len(row) : row[k] # 0

\* C6 as stated: GatherPadding of AddPadding's output for k segments of zero
\* rows and paddings T, T_end that are not zero returns k * T as its first
\* output and, with two paddings and two outputs, k * T_end as its second,
\* for all widths (not both zero: see C7).
C6_AsStated ==
  (op = "GatherPadding" /\ pc = "done" /\ ~ZeroWidth /\ FedZeroPayload
     /\ IsNonZero(fed.padding_start) /\ IsNonZero(FedEndPadding))
  => /\ output0.data = Scale(Len(FedLengths), fed.padding_start)
     /\ (fed.InputSize = 4 /\ OutputSize = 2)
        => output1.data = Scale(Len(FedLengths), fed.padding_end)

\* C6, amended: with widths (s, e) not both zero the first of two outputs is
\* k * s * T and the second k * e * T_end, and a single output is
\* k * s * T + k * e * T_end, where T_end is T if only one padding is given.
C6_GatherOfAddPadding ==
  (op = "GatherPadding" /\ pc = "done" /\ ~ZeroWidth /\ FedZeroPayload)
  => LET k == Len(FedLengths)
         starts == Scale(k * startPaddingWidth_, fed.padding_start)
         ends == Scale(k * endPaddingWidth_, FedEndPadding)
     IN  /\ ~ub
         /\ IF OutputSize = 2
            THEN output0.data = starts /\ output1.data = ends
            ELSE output0.data = AddRows(starts, ends)

\* Two segments of zero rows, two paddings, two outputs.
C6_Witness ==
  /\ op = "GatherPadding" /\ pc = "done" /\ OutputSize = 2 /\ FedZeroPayload
  /\ fed.InputSize = 4 /\ Len(fed.lengths) = 2 /\ fed.data_in.dims = <<2, 2>>
  /\ fed.padding_start = <<2, 4>> /\ fed.padding_end = <<3, 6>>
  /\ startPaddingWidth_ = 1 /\ endPaddingWidth_ = 1
  /\ output0.data = <<4, 8>> /\ output1.data = <<6, 12>>

\* C7 as stated: GatherPadding with widths (0, 0) returns, in every output,
\* an accumulator of block_size zeros with the shape of one row.
C7_AsStated ==
  (op = "GatherPadding" /\ pc = "done" /\ ZeroWidth)
  => /\ output0 = [dims |-> Tail(data_in.dims), data |-> Zeros(block_size)]
     /\ OutputSize = 2
        => output1 = [dims |-> Tail(data_in.dims), data |-> Zeros(block_size)]

Written(w, n) == [j \in 1..Len(w) |-> IF j <= n THEN 1 ELSE 0]

\* C8 as stated (for widths not both zero): lengths with a prefix sum
\* greater than N are rejected, and no element of the output is written
\* before the run fails.
C8_AsStated ==
  /\ (pc = "done" /\ ~ZeroWidth) => NoPrefixOverruns(lengths_ptr, outer_size)
  /\ (pc = "LengthOverrun" /\ op \in {"AddPadding", "RemovePadding"})
     => \A j \in 1..Len(writes) : writes[j] = 0

\* C8, amended: with widths not both zero, lengths with a prefix sum greater
\* than N are rejected, at the first segment i whose prefix sum exceeds N;
\* the check comes before any write for segment i, but the output is
\* allocated and the segments before i are written (for GatherPadding:
\* accumulated) by then.  (With widths (0, 0) no lengths are checked.)
C8_OverrunDetection ==
  /\ (pc = "done" /\ ~ZeroWidth) => NoPrefixOverruns(lengths_ptr, outer_size)
  /\ pc = "loop"
     => /\ total_length = PrefixSum(lengths_ptr, i)
        /\ total_length <= outer_size
  /\ pc = "LengthOverrun"
     => /\ ~ZeroWidth /\ i < lengths_size
        /\ PrefixSum(lengths_ptr, i) <= outer_size
        /\ PrefixSum(lengths_ptr, i + 1) > outer_size
        /\ op = "AddPadding"
           => /\ Len(output0.data) = Len(writes)
              /\ writes = Written(writes, block_size
                            * (PrefixSum(lengths_ptr, i) + pad_width * i))
        /\ (op = "RemovePadding" /\ ~ub)
           => /\ Len(output0.data) = Len(writes)
              /\ writes = Written(writes, block_size
                            * (PrefixSum(lengths_ptr, i) - pad_width * i))
        /\ (op = "GatherPadding" /\ ~ub)
           => LET L == SubSeq(lengths_ptr, 1, i)
                  S == StartPaddingRows(L, startPaddingWidth_)
                  E == EndPaddingRows(L, endPaddingWidth_)
              IN  (\A k \in 1..i : L[k] >= pad_width)
                  => IF OutputSize = 2
                     THEN /\ output0.data = SumOfRows(data_in.data, block_size, S)
                          /\ output1.data = SumOfRows(data_in.data, block_size, E)
                     ELSE output0.data = SumOfRows(data_in.data, block_size, S \cup E)

\* AddPadding fails at its second segment with the first one written.
C8_Witness ==
  /\ op = "AddPadding" /\ pc = "LengthOverrun" /\ i = 1
  /\ data_in.data = <<1, 1>> /\ lengths = <<1, 2>>
  /\ startPaddingWidth_ = 1 /\ endPaddingWidth_ = 0 /\ InputSize = 3
  /\ padding_start = <<2>>
  /\ output0.data = <<2, 1, Indet, Indet>> /\ writes = <<1, 1, 0, 0>>

\* C9 as stated: RemovePadding and GatherPadding do not process a segment
\* shorter than s + e that passes the prefix-sum check (they fail instead),
\* so in_ptr stays within the input, RemovePadding's out_ptr within the
\* output, and nothing undefined happens.
C9_AsStated ==
  (op \in {"RemovePadding", "GatherPadding"} /\ ~ZeroWidth
     /\ pc \in {"loop", "done"})
  => /\ \A k \in 1..i : lengths_ptr[k] >= pad_width
     /\ in_ptr \in 0..Len(data_in.data)
     /\ op = "RemovePadding" => out_ptr \in 0..Len(output0.data)
     /\ ~ub

\* C10 as stated: whenever AddPadding accepts the lengths, every element of
\* the allocated output is written exactly once.
C10_AsStated ==
  (op = "AddPadding" /\ pc = "done" /\ ~ZeroWidth)
  => \A j \in 1..Len(writes) : writes[j] = 1

\* C10, amended: AddPadding writes its segments in lengths order, the first
\* from row 0 and each next from where the one before ended, every element
\* at most once; after i segments exactly the first
\* lengths[0] + ... + lengths[i-1] + (s + e) * i rows are written.  The
\* segments cover all N + (s + e) * k rows only if the lengths sum to N: the
\* last N - sum(lengths) rows are never written.
C10_WriteRegions ==
  (op = "AddPadding" /\ ~ZeroWidth /\ pc \in {"loop", "done"})
  => /\ Len(writes) = Len(output0.data)
     /\ Len(writes) = block_size * (outer_size + pad_width * lengths_size)
     /\ in_ptr = block_size * PrefixSum(lengths_ptr, i)
     /\ out_ptr = block_size * (PrefixSum(lengths_ptr, i) + pad_width * i)
     /\ writes = Written(writes, out_ptr)
     /\ \A j \in 1..Len(writes) : (output0.data[j] = Indet) <=> (j > out_ptr)
     /\ pc = "done"
        => /\ i = lengths_size
           /\ (\A j \in 1..Len(writes) : writes[j] = 1)
              <=> SumSeq(lengths_ptr) = outer_size

\* Two segments that sum to N: every row of the output written once.
C10_Witness ==
  /\ op = "AddPadding" /\ pc = "done" /\ lengths = <<1, 1>>
  /\ data_in.dims = <<2, 2>>
  /\ startPaddingWidth_ = 1 /\ endPaddingWidth_ = 1
  /\ writes = <<1, 1, 1, 1, 1, 1, 1, 1, 1, 1, 1, 1>>

TypeOK == pc \in {"start", "loop", "done"} \cup Failures

====
